---- MODULE Spec2Model ----
(***************************************************************************)
(* A model of mbtool's ROM switcher (src/mbtool/switcher.cpp): the         *)
(* checksum store, the block device resolver, switch_rom and set_kernel.   *)
(*                                                                         *)
(* Strings are sequences of one-character strings, so that find, substr,   *)
(* starts_with and ends_with are computed as the code computes them.  The  *)
(* text of a path macro that no operation looks into is kept as a single   *)
(* element.                                                                *)
(***************************************************************************)
EXTENDS Integers, Sequences, FiniteSets, TLC

VARIABLES
    checksums,  \* the file at CHECKSUMS_PATH: exists, props, owner, mode
    images,     \* image files under MULTIBOOT_DIR: path -> contents or NoFile
    blockdev,   \* block devices: path -> contents
    proc,       \* the invocations: one record of locals per thread of control
    tampers,    \* how many times another app rewrote an image file
    unit        \* inputs and outputs of a direct call of a helper function

vars == <<checksums, images, blockdev, proc, tampers, unit>>

(***************************************************************************)
(* Bounds                                                                  *)
(***************************************************************************)
\* bytes of a digest kept by the model (SHA512_DIGEST_LENGTH is 64)
DigestLen == 1
\* rewrites of image files by another app during one run
MaxTamper == 1
\* calls made one after the other by the caller of the main specification
MaxCalls == 1

\* calls of checksums_update in a run of the checksum store specification
MaxUpdates == 2
\* directories in the search path given to find_block_dev
MaxDirs == 2

(***************************************************************************)
(* Strings                                                                 *)
(***************************************************************************)
npos == 0

RECURSIVE find_from(_, _, _)
\* std::string::find(c) from position i (1-based); npos when absent
find_from(s, c, i) ==
    IF i > Len(s) THEN npos
    ELSE IF s[i] = c THEN i
    ELSE find_from(s, c, i + 1)

RECURSIVE find_last(_, _)
\* find that looks for the last occurrence
find_last(s, c) ==
    IF s = <<>> THEN npos
    ELSE IF s[Len(s)] = c THEN Len(s)
    ELSE find_last(SubSeq(s, 1, Len(s) - 1), c)

find(s, c) == find_from(s, c, 1)

RECURSIVE rfind_from(_, _, _)
rfind_from(s, c, i) ==
    IF i < 1 THEN npos
    ELSE IF s[i] = c THEN i
    ELSE rfind_from(s, c, i - 1)

\* std::string::substr(pos) and substr(pos, n), pos 0-based as in the code
substr_from(s, pos) == SubSeq(s, pos + 1, Len(s))
substr(s, pos, n) == SubSeq(s, pos + 1, pos + n)

starts_with(s, prefix) ==
    /\ Len(s) >= Len(prefix)
    /\ SubSeq(s, 1, Len(prefix)) = prefix

ends_with(s, suffix) ==
    /\ Len(s) >= Len(suffix)
    /\ SubSeq(s, Len(s) - Len(suffix) + 1, Len(s)) = suffix

\* util::base_name: the text after the last '/'
base_name(path) == SubSeq(path, rfind_from(path, "/", Len(path)) + 1, Len(path))

S_sha512 == <<"s", "h", "a", "5", "1", "2">>
S_sha512_colon == <<"s", "h", "a", "5", "1", "2", ":">>
S_boot_img == <<"b", "o", "o", "t", ".", "i", "m", "g">>
S_dot_img == <<".", "i", "m", "g">>
S_mdm == <<"m", "d", "m">>
S_modem == <<"m", "o", "d", "e", "m">>
S_mmcblk == <<"m", "m", "c", "b", "l", "k">>
MULTIBOOT_DIR == <<"/data/media/0/MultiBoot">>
DEV_BLOCK == <<"/", "d", "e", "v", "/", "b", "l", "o", "c", "k", "/">>

(***************************************************************************)
(* Digests                                                                 *)
(***************************************************************************)
HexDigits == <<"0", "1", "2", "3", "4", "5", "6", "7",
               "8", "9", "a", "b", "c", "d", "e", "f">>

RECURSIVE hex_string(_)
\* util::hex_string: two lowercase hex digits per byte
hex_string(bytes) ==
    IF bytes = <<>> THEN <<>>
    ELSE <<HexDigits[(Head(bytes) \div 16) + 1], HexDigits[(Head(bytes) % 16) + 1]>>
         \o hex_string(Tail(bytes))

\* SHA512 over a buffer.  Image contents are numbered; distinct contents have
\* distinct digests (no collision among the contents of the model).
SHA512(data) == [i \in 1..DigestLen |-> (data * 83 + i * 7) % 256]

(***************************************************************************)
(* Checksum store: checksums_get, checksums_update                         *)
(***************************************************************************)
ChecksumKey(rom_id, image) == rom_id \o <<"/">> \o image

\* Result of checksums_get: ret, and *sha512_out (written only when FOUND)
checksums_get(props, rom_id, image, sha512_out) ==
    LET key == ChecksumKey(rom_id, image) IN
    IF key \notin DOMAIN props
    THEN [ret |-> "NOT_FOUND", sha512_out |-> sha512_out]
    ELSE LET value == props[key]
             pos == find(value, ":")
         IN IF pos # npos
            THEN LET algo == substr(value, 0, pos - 1)
                     hash == substr_from(value, pos)
                 IN IF algo # S_sha512
                    THEN [ret |-> "MALFORMED", sha512_out |-> sha512_out]
                    ELSE [ret |-> "FOUND", sha512_out |-> hash]
            ELSE [ret |-> "MALFORMED", sha512_out |-> sha512_out]

\* (*props)[key] = v: insert or overwrite
MapSet(props, key, v) ==
    [k \in (DOMAIN props) \cup {key} |-> IF k = key THEN v ELSE props[k]]

\* checksums_update that stores the digest without its algorithm prefix
checksums_update_noprefix(props, rom_id, image, sha512) ==
    MapSet(props, ChecksumKey(rom_id, image), sha512)

\* checksums_update that inserts and never overwrites (std::unordered_map::insert)
checksums_update_insert(props, rom_id, image, sha512) ==
    IF ChecksumKey(rom_id, image) \in DOMAIN props
    THEN props
    ELSE MapSet(props, ChecksumKey(rom_id, image), S_sha512_colon \o sha512)

checksums_update(props, rom_id, image, sha512) ==
    LET key == ChecksumKey(rom_id, image)
        p1 == MapSet(props, key, S_sha512_colon)
    IN MapSet(p1, key, p1[key] \o sha512)

(***************************************************************************)
(* Checksum file: checksums_read, checksums_write                          *)
(***************************************************************************)
EmptyProps == [k \in {} |-> <<>>]

\* checksums_read: util::file_get_all_properties fills *props when it can read
\* the file; when it cannot, the caller's (empty) map is left as it was.
checksums_read(file, props, read_ok) ==
    IF file.exists /\ read_ok
    THEN [ret |-> TRUE, props |-> file.props]
    ELSE [ret |-> FALSE, props |-> props]

\* checksums_write: remove, create_empty_file, chown, chmod, then write the
\* properties; o gives which of the five calls succeed.  Only the last one
\* decides the result.
checksums_write(file, props, o) ==
    LET removed == IF file.exists /\ o.remove
                   THEN [exists |-> FALSE, props |-> EmptyProps,
                         owner |-> "none", mode |-> "none"]
                   ELSE file
        created == IF ~removed.exists /\ o.create
                   THEN [exists |-> TRUE, props |-> EmptyProps,
                         owner |-> "root", mode |-> "umask"]
                   ELSE removed
        chowned == IF created.exists /\ o.chown
                   THEN [created EXCEPT !.owner = "root"]
                   ELSE created
        chmoded == IF chowned.exists /\ o.chmod
                   THEN [chowned EXCEPT !.mode = "0700"]
                   ELSE chowned
    IN IF o.write
       THEN [ret |-> TRUE,
             file |-> IF chmoded.exists
                      THEN [chmoded EXCEPT !.props = props]
                      ELSE [exists |-> TRUE, props |-> props,
                            owner |-> "root", mode |-> "umask"]]
       ELSE [ret |-> FALSE, file |-> chmoded]

WriteOutcomes == [remove : BOOLEAN, create : BOOLEAN, chown : BOOLEAN,
                  chmod : BOOLEAN, write : BOOLEAN]

(***************************************************************************)
(* Block device resolver and image set builder                             *)
(***************************************************************************)
RECURSIVE search_dirs_loop(_, _, _, _)
\* the loop of find_block_dev over search_dirs; stats lists the paths probed
search_dirs_loop(nodes, search_dirs, partition, stats) ==
    IF search_dirs = <<>>
    THEN [path |-> <<>>, stats |-> stats]
    ELSE LET block_dev == Head(search_dirs) \o <<"/">> \o partition IN
         IF block_dev \in nodes
         THEN [path |-> block_dev, stats |-> Append(stats, block_dev)]
         ELSE search_dirs_loop(nodes, Tail(search_dirs), partition,
                               Append(stats, block_dev))

\* find_block_dev that searches the directories before the direct path
find_block_dev_dirs_first(nodes, search_dirs, partition) ==
    LET path == DEV_BLOCK \o partition
        found == search_dirs_loop(nodes, search_dirs, partition, <<>>)
    IN IF found.path # <<>> THEN found
       ELSE IF starts_with(partition, S_mmcblk) /\ path \in nodes
       THEN [path |-> path, stats |-> Append(found.stats, path)]
       ELSE found

\* find_block_dev: nodes is the set of paths stat() finds
find_block_dev(nodes, search_dirs, partition) ==
    LET path == DEV_BLOCK \o partition IN
    IF starts_with(partition, S_mmcblk)
    THEN IF path \in nodes
         THEN [path |-> path, stats |-> <<path>>]
         ELSE search_dirs_loop(nodes, search_dirs, partition, <<path>>)
    ELSE search_dirs_loop(nodes, search_dirs, partition, <<>>)

nullptr == 0

NewFlashable(image, block_dev) ==
    [image |-> image, block_dev |-> block_dev, expected_hash |-> <<>>,
     hash |-> <<>>, data |-> nullptr]

RECURSIVE add_extra_images_nowhitelist(_, _, _, _, _)
\* add_extra_images without the test of the partition name
add_extra_images_nowhitelist(multiboot_dir, block_dev_dirs, nodes, ents, flashables) ==
    IF ents = <<>> THEN flashables
    ELSE LET name == Head(ents)
             rest == Tail(ents)
             partition == substr(name, 0, Len(name) - 4)
             path == multiboot_dir \o <<"/">> \o name
             block_dev == find_block_dev(nodes, block_dev_dirs, partition).path
         IN IF name = S_dot_img \/ ~ends_with(name, S_dot_img)
            THEN add_extra_images_nowhitelist(multiboot_dir, block_dev_dirs, nodes, rest,
                                              flashables)
            ELSE IF starts_with(name, S_boot_img)
            THEN add_extra_images_nowhitelist(multiboot_dir, block_dev_dirs, nodes, rest,
                                              flashables)
            ELSE IF block_dev = <<>>
            THEN add_extra_images_nowhitelist(multiboot_dir, block_dev_dirs, nodes, rest,
                                              flashables)
            ELSE add_extra_images_nowhitelist(multiboot_dir, block_dev_dirs, nodes, rest,
                                              Append(flashables, NewFlashable(path, block_dev)))

RECURSIVE add_extra_images(_, _, _, _, _)
\* add_extra_images after a successful opendir: ents is what readdir returns,
\* in its order
add_extra_images(multiboot_dir, block_dev_dirs, nodes, ents, flashables) ==
    IF ents = <<>> THEN flashables
    ELSE LET name == Head(ents)
             rest == Tail(ents)
             partition == substr(name, 0, Len(name) - 4)
             path == multiboot_dir \o <<"/">> \o name
             block_dev == find_block_dev(nodes, block_dev_dirs, partition).path
         IN IF name = S_dot_img \/ ~ends_with(name, S_dot_img)
            THEN add_extra_images(multiboot_dir, block_dev_dirs, nodes, rest, flashables)
            ELSE IF starts_with(name, S_boot_img)
            THEN add_extra_images(multiboot_dir, block_dev_dirs, nodes, rest, flashables)
            ELSE IF partition # S_mdm /\ partition # S_modem
            THEN add_extra_images(multiboot_dir, block_dev_dirs, nodes, rest, flashables)
            ELSE IF block_dev = <<>>
            THEN add_extra_images(multiboot_dir, block_dev_dirs, nodes, rest, flashables)
            ELSE add_extra_images(multiboot_dir, block_dev_dirs, nodes, rest,
                                  Append(flashables, NewFlashable(path, block_dev)))

(***************************************************************************)
(* The environment of the main specifications                              *)
(***************************************************************************)
ROM_DUAL == <<"dual">>
ROM_SLOT == <<"multi-slot-1">>
ROM_UNKNOWN == <<"no-such-rom">>

\* what roms.add_installed() finds
Installed == {ROM_DUAL, ROM_SLOT}

\* roms.find_by_id(id) finds a ROM
find_by_id(id) == id \in Installed

S_system_img == <<"s", "y", "s", "t", "e", "m", ".", "i", "m", "g">>
S_mdm_img == S_mdm \o S_dot_img
S_modem_img == S_modem \o S_dot_img

\* image contents (each number stands for one byte string)
Contents == {1, 2}

MultibootPath(id) == MULTIBOOT_DIR \o <<"/">> \o id
ImagePath(id, name) == MultibootPath(id) \o <<"/">> \o name

\* the arguments the daemon passes: the boot partition and the search paths
BOOT_BLOCKDEV == DEV_BLOCK \o <<"b", "o", "o", "t">>
BY_NAME == <<"/dev/block/platform/msm_sdcc.1/by-name">>
BOOTDEVICE == <<"/dev/block/bootdevice/by-name">>
BLOCKDEV_BASE_DIRS == <<BY_NAME, BOOTDEVICE>>

\* the names readdir finds in a directory of image files
DirNames(dir) ==
    {base_name(p) : p \in {q \in DOMAIN images : starts_with(q, dir \o <<"/">>)}}

\* the orders in which readdir may return the names of a set
Orders(S) ==
    {o \in [1..Cardinality(S) -> S] : \A i, j \in 1..Cardinality(S) : o[i] = o[j] => i = j}

Procs == {1, 2}

\* the locals of an invocation that is not running: plan is what the caller
\* may ask of it, limit how many calls it makes; allocd names the buffers
\* file_read_all allocated (k for flashable k, 0 for the data of set_kernel),
\* freed tells how many times each buffer was passed to free()
Idle(plan, limit) ==
    [pc |-> "idle", plan |-> plan, limit |-> limit, calls |-> 0, op |-> "none",
     id |-> <<>>, force |-> FALSE, flashables |-> <<>>, props |-> EmptyProps,
     i |-> 0, data |-> nullptr, hash |-> <<>>, ret |-> "NONE", exit |-> "none",
     did |-> {}, wrote |-> <<>>, pre |-> EmptyProps, allocd |-> {}, freed |-> <<>>]

\* the persisted store: what a reader of the checksum file finds
Persisted == IF checksums.exists THEN checksums.props ELSE EmptyProps

(***************************************************************************)
(* switch_rom and set_kernel, one action per call that can fail or that    *)
(* touches the file system                                                 *)
(***************************************************************************)
\* the buffers the scope guards of a return pass to free(): f.data of every
\* flashable (free(nullptr) does nothing) and, once free_data is in scope,
\* the data of set_kernel
Released(st) ==
    {k \in DOMAIN st.flashables : st.flashables[k].data # nullptr}
        \cup (IF st.data # nullptr THEN {0} ELSE {})

\* a return statement that runs no scope guard
Return_leak(st, ret, exit) ==
    [st EXCEPT !.pc = "idle", !.ret = ret, !.exit = exit,
               !.flashables = [k \in DOMAIN st.flashables |->
                                 [st.flashables[k] EXCEPT !.data = nullptr]],
               !.data = nullptr]

\* a return statement: the result, and the scope guards (free_flashables,
\* free_data) release the buffers
Return(st, ret, exit) ==
    [st EXCEPT !.pc = "idle", !.ret = ret, !.exit = exit,
               !.flashables = [k \in DOMAIN st.flashables |->
                                 [st.flashables[k] EXCEPT !.data = nullptr]],
               !.data = nullptr,
               !.freed = [k \in DOMAIN st.freed \cup Released(st) |->
                            (IF k \in DOMAIN st.freed THEN st.freed[k] ELSE 0)
                            + (IF k \in Released(st) THEN 1 ELSE 0)]]

\* the daemon receives a request
Call(p) ==
    /\ proc[p].pc = "idle"
    /\ proc[p].calls < proc[p].limit
    /\ \E c \in proc[p].plan :
        proc' = [proc EXCEPT ![p] =
                   [Idle(proc[p].plan, proc[p].limit) EXCEPT
                       !.pc = IF c.op = "switch_rom" THEN "sw_find" ELSE "sk_find",
                       !.calls = proc[p].calls + 1, !.op = c.op, !.id = c.id,
                       !.force = c.force, !.pre = Persisted]]
    /\ UNCHANGED <<checksums, images, blockdev, tampers, unit>>

\* SwFind that does not look the ROM id up
SwFind_nocheck(p) ==
    /\ proc[p].pc = "sw_find"
    /\ proc' = [proc EXCEPT ![p] = [proc[p] EXCEPT !.pc = "sw_mkdir"]]
    /\ UNCHANGED <<checksums, images, blockdev, tampers, unit>>

\* switch_rom, lines 348-356: verify the ROM id
SwFind(p) ==
    /\ proc[p].pc = "sw_find"
    /\ proc' = [proc EXCEPT ![p] =
                  IF ~find_by_id(proc[p].id)
                  THEN Return(proc[p], "FAILED", "rom_id")
                  ELSE [proc[p] EXCEPT !.pc = "sw_mkdir"]]
    /\ UNCHANGED <<checksums, images, blockdev, tampers, unit>>

\* switch_rom, lines 358-362: mkdir_recursive(multiboot_path)
SwMkdir(p) ==
    /\ proc[p].pc = "sw_mkdir"
    /\ \E ok \in BOOLEAN :
        proc' = [proc EXCEPT ![p] =
                   IF ~ok
                   THEN Return([proc[p] EXCEPT !.did = @ \cup {"mkdir"}], "FAILED", "mkdir")
                   ELSE [proc[p] EXCEPT !.pc = "sw_images", !.did = @ \cup {"mkdir"}]]
    /\ UNCHANGED <<checksums, images, blockdev, tampers, unit>>

\* switch_rom, lines 368-381: the boot image, then add_extra_images, whose
\* failure (opendir) is only logged
SwImages(p) ==
    /\ proc[p].pc = "sw_images"
    /\ LET multiboot_path == MultibootPath(proc[p].id)
           boot == <<NewFlashable(multiboot_path \o <<"/">> \o S_boot_img, BOOT_BLOCKDEV)>>
       IN \E opendir_ok \in BOOLEAN : \E ents \in Orders(DirNames(multiboot_path)) :
            proc' = [proc EXCEPT ![p] =
                       [proc[p] EXCEPT
                           !.pc = "sw_load",
                           !.did = @ \cup {"opendir"},
                           !.flashables =
                               IF opendir_ok
                               THEN add_extra_images(multiboot_path, BLOCKDEV_BASE_DIRS,
                                                     DOMAIN blockdev, ents, boot)
                               ELSE boot]]
    /\ UNCHANGED <<checksums, images, blockdev, tampers, unit>>

\* switch_rom, lines 383-384: checksums_read, result ignored
SwLoad(p) ==
    /\ proc[p].pc = "sw_load"
    /\ \E read_ok \in BOOLEAN :
        proc' = [proc EXCEPT ![p] =
                   [proc[p] EXCEPT
                       !.pc = "sw_read", !.i = 1,
                       !.did = @ \cup {IF checksums_read(checksums, EmptyProps, read_ok).ret
                                       THEN "load" ELSE "load_failed"},
                       !.props = checksums_read(checksums, EmptyProps, read_ok).props]]
    /\ UNCHANGED <<checksums, images, blockdev, tampers, unit>>

\* VerifyStep that does not compare the digests
VerifyStep_nocompare(st, data) ==
    LET f == st.flashables[st.i]
        hash == hex_string(SHA512(data))
        props1 == IF st.force
                  THEN checksums_update(st.props, st.id, base_name(f.image), hash)
                  ELSE st.props
        got == checksums_get(props1, st.id, base_name(f.image), f.expected_hash)
        f1 == [f EXCEPT !.data = data, !.hash = hash, !.expected_hash = got.sha512_out]
        st1 == [st EXCEPT !.flashables[st.i] = f1, !.props = props1,
                          !.did = @ \cup {"read", "digest"},
                          !.allocd = @ \cup {st.i}]
    IN IF got.ret = "MALFORMED"
       THEN Return(st1, "CHECKSUM_INVALID", "malformed")
       ELSE IF st.i < Len(st.flashables)
       THEN [st1 EXCEPT !.i = st.i + 1]
       ELSE [st1 EXCEPT !.pc = "sw_missing"]

\* VerifyStep that fails on a missing checksum as soon as it meets one
VerifyStep_eager(st, data) ==
    LET f == st.flashables[st.i]
        hash == hex_string(SHA512(data))
        props1 == IF st.force
                  THEN checksums_update(st.props, st.id, base_name(f.image), hash)
                  ELSE st.props
        got == checksums_get(props1, st.id, base_name(f.image), f.expected_hash)
        f1 == [f EXCEPT !.data = data, !.hash = hash, !.expected_hash = got.sha512_out]
        st1 == [st EXCEPT !.flashables[st.i] = f1, !.props = props1,
                          !.did = @ \cup {"read", "digest"},
                          !.allocd = @ \cup {st.i}]
    IN IF got.ret = "MALFORMED"
       THEN Return(st1, "CHECKSUM_INVALID", "malformed")
       ELSE IF got.ret = "FOUND" /\ f1.expected_hash # f1.hash
       THEN Return(st1, "CHECKSUM_INVALID", "mismatch")
       ELSE IF got.ret = "NOT_FOUND"
       THEN Return(st1, "CHECKSUM_NOT_FOUND", "missing")
       ELSE IF st.i < Len(st.flashables)
       THEN [st1 EXCEPT !.i = st.i + 1]
       ELSE [st1 EXCEPT !.pc = "sw_missing"]

\* VerifyStep that hashes the image without keeping it in the buffer
VerifyStep_nobuffer(st, data) ==
    LET f == st.flashables[st.i]
        hash == hex_string(SHA512(data))
        props1 == IF st.force
                  THEN checksums_update(st.props, st.id, base_name(f.image), hash)
                  ELSE st.props
        got == checksums_get(props1, st.id, base_name(f.image), f.expected_hash)
        f1 == [f EXCEPT !.hash = hash, !.expected_hash = got.sha512_out]
        st1 == [st EXCEPT !.flashables[st.i] = f1, !.props = props1,
                          !.did = @ \cup {"read", "digest"},
                          !.allocd = @ \cup {st.i}]
    IN IF got.ret = "MALFORMED"
       THEN Return(st1, "CHECKSUM_INVALID", "malformed")
       ELSE IF got.ret = "FOUND" /\ f1.expected_hash # f1.hash
       THEN Return(st1, "CHECKSUM_INVALID", "mismatch")
       ELSE IF st.i < Len(st.flashables)
       THEN [st1 EXCEPT !.i = st.i + 1]
       ELSE [st1 EXCEPT !.pc = "sw_missing"]

\* VerifyStep that updates the store whether or not the caller asked for it
VerifyStep_update_always(st, data) ==
    LET f == st.flashables[st.i]
        hash == hex_string(SHA512(data))
        props1 == checksums_update(st.props, st.id, base_name(f.image), hash)
        got == checksums_get(props1, st.id, base_name(f.image), f.expected_hash)
        f1 == [f EXCEPT !.data = data, !.hash = hash, !.expected_hash = got.sha512_out]
        st1 == [st EXCEPT !.flashables[st.i] = f1, !.props = props1,
                          !.did = @ \cup {"read", "digest"},
                          !.allocd = @ \cup {st.i}]
    IN IF got.ret = "MALFORMED"
       THEN Return(st1, "CHECKSUM_INVALID", "malformed")
       ELSE IF got.ret = "FOUND" /\ f1.expected_hash # f1.hash
       THEN Return(st1, "CHECKSUM_INVALID", "mismatch")
       ELSE IF st.i < Len(st.flashables)
       THEN [st1 EXCEPT !.i = st.i + 1]
       ELSE [st1 EXCEPT !.pc = "sw_missing"]

\* VerifyStep that looks the checksum up before it updates the store
VerifyStep_lookup_first(st, data) ==
    LET f == st.flashables[st.i]
        hash == hex_string(SHA512(data))
        props1 == IF st.force
                  THEN checksums_update(st.props, st.id, base_name(f.image), hash)
                  ELSE st.props
        got == checksums_get(st.props, st.id, base_name(f.image), f.expected_hash)
        f1 == [f EXCEPT !.data = data, !.hash = hash, !.expected_hash = got.sha512_out]
        st1 == [st EXCEPT !.flashables[st.i] = f1, !.props = props1,
                          !.did = @ \cup {"read", "digest"},
                          !.allocd = @ \cup {st.i}]
    IN IF got.ret = "MALFORMED"
       THEN Return(st1, "CHECKSUM_INVALID", "malformed")
       ELSE IF got.ret = "FOUND" /\ f1.expected_hash # f1.hash
       THEN Return(st1, "CHECKSUM_INVALID", "mismatch")
       ELSE IF st.i < Len(st.flashables)
       THEN [st1 EXCEPT !.i = st.i + 1]
       ELSE [st1 EXCEPT !.pc = "sw_missing"]

\* one iteration of the loop of lines 386-418 on a flashable whose image was
\* read into data: digest, update when forced, lookup, comparison
VerifyStep(st, data) ==
    LET f == st.flashables[st.i]
        hash == hex_string(SHA512(data))
        props1 == IF st.force
                  THEN checksums_update(st.props, st.id, base_name(f.image), hash)
                  ELSE st.props
        got == checksums_get(props1, st.id, base_name(f.image), f.expected_hash)
        f1 == [f EXCEPT !.data = data, !.hash = hash, !.expected_hash = got.sha512_out]
        st1 == [st EXCEPT !.flashables[st.i] = f1, !.props = props1,
                          !.did = @ \cup {"read", "digest"},
                          !.allocd = @ \cup {st.i}]
    IN IF got.ret = "MALFORMED"
       THEN Return(st1, "CHECKSUM_INVALID", "malformed")
       ELSE IF got.ret = "FOUND" /\ f1.expected_hash # f1.hash
       THEN Return(st1, "CHECKSUM_INVALID", "mismatch")
       ELSE IF st.i < Len(st.flashables)
       THEN [st1 EXCEPT !.i = st.i + 1]
       ELSE [st1 EXCEPT !.pc = "sw_missing"]

\* SwRead that goes on to the next image when one cannot be read
SwRead_skip(p) ==
    /\ proc[p].pc = "sw_read"
    /\ LET f == proc[p].flashables[proc[p].i] IN
       \E read_ok \in BOOLEAN :
        proc' = [proc EXCEPT ![p] =
                   IF read_ok /\ f.image \in DOMAIN images
                   THEN VerifyStep(proc[p], images[f.image])
                   ELSE IF proc[p].i < Len(proc[p].flashables)
                   THEN [proc[p] EXCEPT !.i = @ + 1, !.did = @ \cup {"read"}]
                   ELSE [proc[p] EXCEPT !.pc = "sw_missing", !.did = @ \cup {"read"}]]
    /\ UNCHANGED <<checksums, images, blockdev, tampers, unit>>

\* switch_rom, lines 386-418: file_read_all of the next image, then its check
SwRead(p) ==
    /\ proc[p].pc = "sw_read"
    /\ LET f == proc[p].flashables[proc[p].i] IN
       \E read_ok \in BOOLEAN :
        proc' = [proc EXCEPT ![p] =
                   IF read_ok /\ f.image \in DOMAIN images
                   THEN VerifyStep(proc[p], images[f.image])
                   ELSE Return([proc[p] EXCEPT !.did = @ \cup {"read"}], "FAILED", "read")]
    /\ UNCHANGED <<checksums, images, blockdev, tampers, unit>>

\* HasMissing without the sweep for missing checksums
HasMissing_never(flashables) == FALSE

\* the test of the loop of lines 423-428: some expected hash is empty
HasMissing(flashables) ==
    \E k \in DOMAIN flashables : flashables[k].expected_hash = <<>>

\* switch_rom, lines 420-428: fail if an expected hash is missing
SwMissing(p) ==
    /\ proc[p].pc = "sw_missing"
    /\ proc' = [proc EXCEPT ![p] =
                  IF HasMissing(proc[p].flashables)
                  THEN Return(proc[p], "CHECKSUM_NOT_FOUND", "missing")
                  ELSE [proc[p] EXCEPT !.pc = "sw_flash", !.i = 1]]
    /\ UNCHANGED <<checksums, images, blockdev, tampers, unit>>

\* FlashData when the image file is read again at flash time
FlashData_reread(f) == IF f.image \in DOMAIN images THEN images[f.image] ELSE f.data

\* the buffer file_write_data is given for a flashable
FlashData(f) == f.data

\* SwFlash that goes on to the next flashable when a write fails
SwFlash_continue(p) ==
    /\ proc[p].pc = "sw_flash"
    /\ LET st == proc[p]
           f == st.flashables[st.i]
           next == [st EXCEPT !.did = @ \cup {"flash"},
                              !.i = st.i + 1,
                              !.pc = IF st.i < Len(st.flashables) THEN "sw_flash"
                                     ELSE IF st.force THEN "sw_persist"
                                     ELSE "sw_fixperm"]
       IN \E write_ok \in BOOLEAN :
            IF ~write_ok
            THEN /\ proc' = [proc EXCEPT ![p] = next]
                 /\ UNCHANGED blockdev
            ELSE /\ blockdev' = MapSet(blockdev, f.block_dev, FlashData(f))
                 /\ proc' = [proc EXCEPT ![p] =
                               [next EXCEPT !.wrote = Append(@, [dev |-> f.block_dev,
                                                                 data |-> FlashData(f)])]]
    /\ UNCHANGED <<checksums, images, tampers, unit>>

\* switch_rom, lines 430-439: file_write_data of the next flashable
SwFlash(p) ==
    /\ proc[p].pc = "sw_flash"
    /\ LET st == proc[p]
           f == st.flashables[st.i]
       IN \E write_ok \in BOOLEAN :
            IF ~write_ok
            THEN /\ proc' = [proc EXCEPT ![p] =
                               Return([st EXCEPT !.did = @ \cup {"flash"}], "FAILED", "flash")]
                 /\ UNCHANGED blockdev
            ELSE /\ blockdev' = MapSet(blockdev, f.block_dev, FlashData(f))
                 /\ proc' = [proc EXCEPT ![p] =
                               [st EXCEPT
                                   !.did = @ \cup {"flash"},
                                   !.wrote = Append(@, [dev |-> f.block_dev,
                                                        data |-> FlashData(f)]),
                                   !.i = st.i + 1,
                                   !.pc = IF st.i < Len(st.flashables) THEN "sw_flash"
                                          ELSE IF st.force THEN "sw_persist"
                                          ELSE "sw_fixperm"]]
    /\ UNCHANGED <<checksums, images, tampers, unit>>

\* SwPersist that fails the call when the checksum file cannot be written
SwPersist_fatal(p) ==
    /\ proc[p].pc = "sw_persist"
    /\ \E o \in WriteOutcomes :
        LET w == checksums_write(checksums, proc[p].props, o) IN
        /\ checksums' = w.file
        /\ proc' = [proc EXCEPT ![p] =
                      IF w.ret
                      THEN [proc[p] EXCEPT !.pc = "sw_fixperm", !.did = @ \cup {"persist"}]
                      ELSE Return([proc[p] EXCEPT !.did = @ \cup {"persist_failed"}],
                                  "FAILED", "persist")]
    /\ UNCHANGED <<images, blockdev, tampers, unit>>

\* switch_rom, lines 441-444: checksums_write, result ignored
SwPersist(p) ==
    /\ proc[p].pc = "sw_persist"
    /\ \E o \in WriteOutcomes :
        LET w == checksums_write(checksums, proc[p].props, o) IN
        /\ checksums' = w.file
        /\ proc' = [proc EXCEPT ![p] =
                      [proc[p] EXCEPT !.pc = "sw_fixperm",
                                      !.did = @ \cup {IF w.ret THEN "persist" ELSE "persist_failed"}]]
    /\ UNCHANGED <<images, blockdev, tampers, unit>>

\* fix_permissions: chown and chmod of MULTIBOOT_DIR, then its SELinux label
\* set to that of /data/media/0 when that one can be read; o gives which of
\* the calls succeed
fix_permissions(o) ==
    IF ~o.chown THEN FALSE
    ELSE IF ~o.chmod THEN FALSE
    ELSE IF o.lget_context /\ ~o.lset_context THEN FALSE
    ELSE TRUE

FixOutcomes == [chown : BOOLEAN, chmod : BOOLEAN, lget_context : BOOLEAN,
                lset_context : BOOLEAN]

\* switch_rom, lines 446-450: fix_permissions decides the result
SwFixPerm(p) ==
    /\ proc[p].pc = "sw_fixperm"
    /\ \E o \in FixOutcomes :
        proc' = [proc EXCEPT ![p] =
                   IF ~fix_permissions(o)
                   THEN Return([proc[p] EXCEPT !.did = @ \cup {"fixperm"}], "FAILED", "perm")
                   ELSE Return([proc[p] EXCEPT !.did = @ \cup {"fixperm"}], "SUCCEEDED", "ok")]
    /\ UNCHANGED <<checksums, images, blockdev, tampers, unit>>

\* set_kernel, lines 476-484: verify the ROM id
SkFind(p) ==
    /\ proc[p].pc = "sk_find"
    /\ proc' = [proc EXCEPT ![p] =
                  IF ~find_by_id(proc[p].id)
                  THEN Return(proc[p], "false", "rom_id")
                  ELSE [proc[p] EXCEPT !.pc = "sk_mkdir"]]
    /\ UNCHANGED <<checksums, images, blockdev, tampers, unit>>

\* set_kernel, lines 486-490: mkdir_recursive(multiboot_path)
SkMkdir(p) ==
    /\ proc[p].pc = "sk_mkdir"
    /\ \E ok \in BOOLEAN :
        proc' = [proc EXCEPT ![p] =
                   IF ~ok
                   THEN Return([proc[p] EXCEPT !.did = @ \cup {"mkdir"}], "false", "mkdir")
                   ELSE [proc[p] EXCEPT !.pc = "sk_read", !.did = @ \cup {"mkdir"}]]
    /\ UNCHANGED <<checksums, images, blockdev, tampers, unit>>

\* set_kernel, lines 492-508: file_read_all of the boot block device, digest
SkRead(p) ==
    /\ proc[p].pc = "sk_read"
    /\ \E read_ok \in BOOLEAN :
        proc' = [proc EXCEPT ![p] =
                   IF read_ok /\ BOOT_BLOCKDEV \in DOMAIN blockdev
                   THEN [proc[p] EXCEPT
                            !.pc = "sk_load",
                            !.did = @ \cup {"read", "digest"},
                            !.allocd = @ \cup {0},
                            !.data = blockdev[BOOT_BLOCKDEV],
                            !.hash = hex_string(SHA512(blockdev[BOOT_BLOCKDEV]))]
                   ELSE Return([proc[p] EXCEPT !.did = @ \cup {"read"}], "false", "read")]
    /\ UNCHANGED <<checksums, images, blockdev, tampers, unit>>

\* set_kernel, lines 510-513: checksums_read (result ignored), checksums_update
SkLoad(p) ==
    /\ proc[p].pc = "sk_load"
    /\ \E read_ok \in BOOLEAN :
        proc' = [proc EXCEPT ![p] =
                   [proc[p] EXCEPT
                       !.pc = "sk_write",
                       !.did = @ \cup {IF checksums_read(checksums, EmptyProps, read_ok).ret
                                       THEN "load" ELSE "load_failed"},
                       !.props = checksums_update(
                                     checksums_read(checksums, EmptyProps, read_ok).props,
                                     proc[p].id, S_boot_img, proc[p].hash)]]
    /\ UNCHANGED <<checksums, images, blockdev, tampers, unit>>

\* set_kernel, lines 518-524: file_write_data to the ROM's boot image
SkWrite(p) ==
    /\ proc[p].pc = "sk_write"
    /\ LET bootimg_path == MultibootPath(proc[p].id) \o <<"/">> \o S_boot_img IN
       \E write_ok \in BOOLEAN :
        IF ~write_ok
        THEN /\ proc' = [proc EXCEPT ![p] =
                           Return([proc[p] EXCEPT !.did = @ \cup {"write"}], "false", "write")]
             /\ UNCHANGED images
        ELSE /\ images' = MapSet(images, bootimg_path, proc[p].data)
             /\ proc' = [proc EXCEPT ![p] =
                           [proc[p] EXCEPT
                               !.pc = "sk_persist",
                               !.did = @ \cup {"write"},
                               !.wrote = Append(@, [dev |-> bootimg_path,
                                                    data |-> proc[p].data])]]
    /\ UNCHANGED <<checksums, blockdev, tampers, unit>>

\* set_kernel, lines 526-527: checksums_write, result ignored
SkPersist(p) ==
    /\ proc[p].pc = "sk_persist"
    /\ \E o \in WriteOutcomes :
        LET w == checksums_write(checksums, proc[p].props, o) IN
        /\ checksums' = w.file
        /\ proc' = [proc EXCEPT ![p] =
                      [proc[p] EXCEPT !.pc = "sk_fixperm",
                                      !.did = @ \cup {IF w.ret THEN "persist" ELSE "persist_failed"}]]
    /\ UNCHANGED <<images, blockdev, tampers, unit>>

\* set_kernel, lines 529-533: fix_permissions decides the result
SkFixPerm(p) ==
    /\ proc[p].pc = "sk_fixperm"
    /\ \E o \in FixOutcomes :
        proc' = [proc EXCEPT ![p] =
                   IF ~fix_permissions(o)
                   THEN Return([proc[p] EXCEPT !.did = @ \cup {"fixperm"}], "false", "perm")
                   ELSE Return([proc[p] EXCEPT !.did = @ \cup {"fixperm"}], "true", "ok")]
    /\ UNCHANGED <<checksums, images, blockdev, tampers, unit>>

\* another app rewrites an image file in the shared storage while an
\* invocation runs
Tamper ==
    /\ tampers < MaxTamper
    /\ \E p \in Procs : proc[p].pc # "idle"
    /\ \E path \in DOMAIN images : \E c \in Contents \ {images[path]} :
        images' = [images EXCEPT ![path] = c]
    /\ tampers' = tampers + 1
    /\ UNCHANGED <<checksums, blockdev, proc, unit>>

(***************************************************************************)
(* The main specification: one caller, every kind of request, any state of *)
(* the image directory and of the checksum file                            *)
(***************************************************************************)
Digest(c) == hex_string(SHA512(c))
S_md5_colon == <<"m", "d", "5", ":">>

\* f without the arguments it maps to absent
Restrict(f, absent) == [k \in {x \in DOMAIN f : f[x] # absent} |-> f[k]]

\* marks a key the checksum file does not hold
NoValue == <<"(absent)">>

\* the files the ROM directory may hold at the start, each with contents 1:
\* system.img (not whitelisted) and any of boot.img, mdm.img and modem.img
InitImages ==
    {Restrict(f, 0) : f \in
        {g \in [{ImagePath(ROM_DUAL, n) :
                   n \in {S_boot_img, S_mdm_img, S_modem_img, S_system_img}}
                -> {0, 1}] : g[ImagePath(ROM_DUAL, S_system_img)] = 1}}

\* the values the checksum file may hold for the images of the ROMs
InitProps ==
    {Restrict(f, NoValue) : f \in
        {g \in [{ChecksumKey(ROM_DUAL, S_boot_img), ChecksumKey(ROM_DUAL, S_mdm_img),
                 ChecksumKey(ROM_DUAL, S_modem_img), ChecksumKey(ROM_SLOT, S_boot_img)}
                -> {NoValue, S_sha512_colon \o Digest(1), S_sha512_colon \o Digest(2),
                    S_md5_colon \o Digest(1), Digest(1), S_sha512_colon}] :
            /\ g[ChecksumKey(ROM_DUAL, S_mdm_img)] # S_sha512_colon
            /\ g[ChecksumKey(ROM_DUAL, S_mdm_img)] # S_md5_colon \o Digest(1)
            /\ g[ChecksumKey(ROM_DUAL, S_boot_img)] # Digest(1)
            /\ g[ChecksumKey(ROM_DUAL, S_modem_img)] \in {NoValue, S_sha512_colon \o Digest(1)}
            /\ g[ChecksumKey(ROM_SLOT, S_boot_img)] = S_sha512_colon \o Digest(1)}}

InitChecksums ==
    {[exists |-> TRUE, props |-> ps, owner |-> "root", mode |-> "0700"] : ps \in InitProps}
    \cup {[exists |-> FALSE, props |-> EmptyProps, owner |-> "none", mode |-> "none"]}

\* the block device nodes: the boot partition, mdm under the second search
\* path, system, and modem on some devices only
InitBlockdev ==
    {Restrict(f, 0) : f \in
        {g \in [{BOOT_BLOCKDEV, BOOTDEVICE \o <<"/">> \o S_mdm,
                 BY_NAME \o <<"/">> \o S_modem,
                 BY_NAME \o <<"/">> \o <<"s", "y", "s", "t", "e", "m">>}
                -> {0, 2}] :
            \A d \in DOMAIN g : g[d] = 0 => d = BY_NAME \o <<"/">> \o S_modem}}

MainPlan ==
    {[op |-> "switch_rom", id |-> ROM_DUAL, force |-> FALSE],
     [op |-> "switch_rom", id |-> ROM_DUAL, force |-> TRUE],
     [op |-> "switch_rom", id |-> ROM_UNKNOWN, force |-> FALSE],
     [op |-> "set_kernel", id |-> ROM_DUAL, force |-> FALSE],
     [op |-> "set_kernel", id |-> ROM_UNKNOWN, force |-> FALSE]}

NoUnit == [op |-> "none"]

Init ==
    /\ checksums \in InitChecksums
    /\ images \in InitImages
    /\ blockdev \in InitBlockdev
    /\ proc = [p \in Procs |-> IF p = 1 THEN Idle(MainPlan, MaxCalls) ELSE Idle({}, 0)]
    /\ tampers = 0
    /\ unit = NoUnit

Step(p) ==
    \/ Call(p)
    \/ SwFind(p) \/ SwMkdir(p) \/ SwImages(p) \/ SwLoad(p) \/ SwRead(p)
    \/ SwMissing(p) \/ SwFlash(p) \/ SwPersist(p) \/ SwFixPerm(p)
    \/ SkFind(p) \/ SkMkdir(p) \/ SkRead(p) \/ SkLoad(p) \/ SkWrite(p)
    \/ SkPersist(p) \/ SkFixPerm(p)

Next == (\E p \in Procs : Step(p)) \/ Tamper

Spec == Init /\ [][Next]_vars

(***************************************************************************)
(* What the claims speak of                                                *)
(***************************************************************************)
\* invocation p has returned from a call
Returned(p) == proc[p].pc = "idle" /\ proc[p].calls > 0

\* switch_rom got as far as its loops: known ROM, directory made, no image
\* that could not be read
ReachedVerdict(p) ==
    /\ Returned(p)
    /\ proc[p].op = "switch_rom"
    /\ proc[p].exit \notin {"rom_id", "mkdir", "read"}

\* the first ':' of v is at i
ColonAt(v, i) == v[i] = ":" /\ \A j \in 1..(i - 1) : v[j] # ":"

\* v reads "sha512:<digest>"
WellFormed(v) == \E i \in 1..Len(v) : ColonAt(v, i) /\ SubSeq(v, 1, i - 1) = S_sha512

\* the text of v after its first ':'
DigestOf(v) == SubSeq(v, (CHOOSE i \in 1..Len(v) : ColonAt(v, i)) + 1, Len(v))

\* the key of flashable k of invocation p in the checksum store
KeyOf(p, k) == ChecksumKey(proc[p].id, base_name(proc[p].flashables[k].image))

\* the store invocation p works on holds nothing for its flashable k
StoredMissing(p, k) == KeyOf(p, k) \notin DOMAIN proc[p].props

\* ... a value that is malformed, or a digest other than the one computed
StoredBad(p, k) ==
    /\ KeyOf(p, k) \in DOMAIN proc[p].props
    /\ LET v == proc[p].props[KeyOf(p, k)]
           f == proc[p].flashables[k]
       IN \/ ~WellFormed(v)
          \/ f.hash # <<>> /\ DigestOf(v) # f.hash

\* ... the digest computed for it
StoredMatches(p, k) ==
    /\ KeyOf(p, k) \in DOMAIN proc[p].props
    /\ LET v == proc[p].props[KeyOf(p, k)]
           f == proc[p].flashables[k]
       IN WellFormed(v) /\ f.hash # <<>> /\ DigestOf(v) = f.hash

(***************************************************************************)
(* C1: switch_rom writes to a block device only after every flashable of   *)
(* the list has been read into memory and has a Found expected digest      *)
(* equal to its computed digest; a run in which an image cannot be read,   *)
(* or that returns CHECKSUM_INVALID or CHECKSUM_NOT_FOUND, has written to  *)
(* no block device.                                                        *)
(***************************************************************************)
C1_WriteOnlyAfterVerify ==
    \A p \in Procs : proc[p].op = "switch_rom" =>
        /\ proc[p].wrote # <<>> =>
            \A k \in DOMAIN proc[p].flashables :
                LET f == proc[p].flashables[k] IN
                /\ proc[p].pc # "idle" => f.data # nullptr
                /\ f.hash # <<>>
                /\ StoredMatches(p, k)
                /\ f.expected_hash = f.hash
        /\ (proc[p].ret \in {"CHECKSUM_INVALID", "CHECKSUM_NOT_FOUND"}
                \/ proc[p].exit = "read") => proc[p].wrote = <<>>

\* two block devices written by an unforced switch_rom
C1_Witness ==
    \E p \in Procs :
        /\ proc[p].op = "switch_rom"
        /\ ~proc[p].force
        /\ Len(proc[p].wrote) >= 2

(***************************************************************************)
(* C2: an unforced switch_rom of a known ROM whose images are all readable *)
(* returns CHECKSUM_INVALID, never CHECKSUM_NOT_FOUND, when the store it   *)
(* loaded holds a mismatching or malformed checksum for one flashable and  *)
(* none for another, in whichever order the two are in the list.           *)
(***************************************************************************)
C2_InvalidBeforeMissing ==
    \A p \in Procs :
        ( /\ ReachedVerdict(p)
          /\ ~proc[p].force
          /\ \E k \in DOMAIN proc[p].flashables : StoredBad(p, k)
          /\ \E k \in DOMAIN proc[p].flashables : StoredMissing(p, k) )
        => proc[p].ret = "CHECKSUM_INVALID"

\* CHECKSUM_INVALID for the second image when the first has no checksum
C2_Witness ==
    \E p \in Procs :
        /\ ReachedVerdict(p)
        /\ ~proc[p].force
        /\ Len(proc[p].flashables) >= 2
        /\ StoredMissing(p, 1)
        /\ StoredBad(p, 2)
        /\ proc[p].ret = "CHECKSUM_INVALID"

(***************************************************************************)
(* C3: an unforced switch_rom of a known ROM whose boot image matches its  *)
(* stored checksum and that has an extra whitelisted image (with a block   *)
(* device) without a stored checksum returns CHECKSUM_NOT_FOUND, not       *)
(* FAILED, and writes to no block device, the boot device included.  The   *)
(* case is the one of the images being there to be read.                   *)
(***************************************************************************)
C3_MissingExtraNotFound ==
    \A p \in Procs :
        ( /\ ReachedVerdict(p)
          /\ ~proc[p].force
          /\ Len(proc[p].flashables) >= 2
          /\ StoredMatches(p, 1)
          /\ \E k \in 2..Len(proc[p].flashables) : StoredMissing(p, k)
          /\ \A k \in 2..Len(proc[p].flashables) : StoredMissing(p, k) \/ StoredMatches(p, k) )
        => /\ proc[p].ret = "CHECKSUM_NOT_FOUND"
           /\ proc[p].wrote = <<>>

\* the boot image verified, modem.img with a block device and no checksum
C3_Witness ==
    \E p \in Procs :
        /\ ReachedVerdict(p)
        /\ ~proc[p].force
        /\ Len(proc[p].flashables) = 2
        /\ proc[p].flashables[1].block_dev = BOOT_BLOCKDEV
        /\ proc[p].flashables[2].image = ImagePath(ROM_DUAL, S_modem_img)
        /\ proc[p].flashables[2].block_dev \in DOMAIN blockdev
        /\ StoredMatches(p, 1)
        /\ StoredMissing(p, 2)
        /\ proc[p].ret = "CHECKSUM_NOT_FOUND"

(***************************************************************************)
(* C4: with force_update_checksums set and no prior entry for the ROM's    *)
(* images, switch_rom succeeds (it returns neither CHECKSUM_INVALID nor    *)
(* CHECKSUM_NOT_FOUND, and SUCCEEDED when no file operation fails), and    *)
(* the resulting store, in memory and in the file once persisted, holds    *)
(* for each flashed image "sha512:" followed by the sha512 digest of the   *)
(* bytes written to its block device.                                      *)
(***************************************************************************)
C4_ForcedStoreHoldsFlashedDigest ==
    \A p \in Procs :
        ( /\ Returned(p)
          /\ proc[p].op = "switch_rom"
          /\ proc[p].force
          /\ \A k \in DOMAIN proc[p].flashables : KeyOf(p, k) \notin DOMAIN proc[p].pre )
        => /\ proc[p].ret \notin {"CHECKSUM_INVALID", "CHECKSUM_NOT_FOUND"}
           /\ proc[p].exit \notin {"rom_id", "mkdir", "read", "flash", "perm"}
                => proc[p].ret = "SUCCEEDED"
           /\ proc[p].ret = "SUCCEEDED" =>
                /\ Len(proc[p].wrote) = Len(proc[p].flashables)
                /\ \A k \in DOMAIN proc[p].wrote :
                    LET entry == S_sha512_colon \o hex_string(SHA512(proc[p].wrote[k].data)) IN
                    /\ proc[p].wrote[k].dev = proc[p].flashables[k].block_dev
                    /\ blockdev[proc[p].wrote[k].dev] = proc[p].wrote[k].data
                    /\ KeyOf(p, k) \in DOMAIN proc[p].props
                    /\ proc[p].props[KeyOf(p, k)] = entry
                    /\ "persist" \in proc[p].did =>
                        /\ KeyOf(p, k) \in DOMAIN Persisted
                        /\ Persisted[KeyOf(p, k)] = entry

\* a forced switch_rom of two images without prior entries succeeded and
\* persisted the store
C4_Witness ==
    \E p \in Procs :
        /\ Returned(p)
        /\ proc[p].op = "switch_rom"
        /\ proc[p].force
        /\ Len(proc[p].flashables) >= 2
        /\ \A k \in DOMAIN proc[p].flashables : KeyOf(p, k) \notin DOMAIN proc[p].pre
        /\ proc[p].ret = "SUCCEEDED"
        /\ "persist" \in proc[p].did
        /\ checksums.exists

(***************************************************************************)
(* C5: set_kernel never alters a checksum-store key other than             *)
(* "<rom_id>/boot.img": whatever the checksum file held and however the    *)
(* call ends, a failed load included, every other key has in the persisted *)
(* store the value (or the absence) it had before the call.                *)
(***************************************************************************)
C5_SetKernelOtherKeysKept ==
    \A p \in Procs :
        (Returned(p) /\ proc[p].op = "set_kernel") =>
            \A key \in ((DOMAIN proc[p].pre) \cup (DOMAIN Persisted))
                        \ {ChecksumKey(proc[p].id, S_boot_img)} :
                /\ key \in DOMAIN proc[p].pre
                /\ key \in DOMAIN Persisted
                /\ Persisted[key] = proc[p].pre[key]

(***************************************************************************)
(* C6: the bytes switch_rom writes to a flashable's block device are the   *)
(* in-memory snapshot whose digest was computed and compared (or stored):  *)
(* the digest of the bytes flashed is the flashable's computed digest and  *)
(* its expected digest, whenever the image file is rewritten meanwhile.    *)
(***************************************************************************)
C6_FlashedBytesAreVerifiedSnapshot ==
    \A p \in Procs : proc[p].op = "switch_rom" =>
        \A k \in DOMAIN proc[p].wrote :
            LET f == proc[p].flashables[k]
                w == proc[p].wrote[k]
            IN /\ w.dev = f.block_dev
               /\ hex_string(SHA512(w.data)) = f.hash
               /\ f.expected_hash = f.hash
               /\ proc[p].pc # "idle" => w.data = f.data
               /\ proc[p].props[KeyOf(p, k)] = S_sha512_colon \o hex_string(SHA512(w.data))

\* an image file was rewritten after it was read, and the bytes flashed are
\* those read, not those of the file
C6_Witness ==
    \E p \in Procs :
        /\ proc[p].op = "switch_rom"
        /\ tampers > 0
        /\ \E k \in DOMAIN proc[p].wrote :
            /\ proc[p].flashables[k].image \in DOMAIN images
            /\ images[proc[p].flashables[k].image] # proc[p].wrote[k].data

(***************************************************************************)
(* Two invocations at once, one per ROM: the daemon serves two connections *)
(***************************************************************************)
ConcPlan(id) ==
    {[op |-> "switch_rom", id |-> id, force |-> TRUE],
     [op |-> "set_kernel", id |-> id, force |-> FALSE]}

InitConc ==
    /\ checksums \in
        {[exists |-> TRUE, props |-> ps, owner |-> "root", mode |-> "0700"] :
            ps \in {EmptyProps,
                    [k \in {ChecksumKey(ROM_DUAL, S_mdm_img)} |-> S_sha512_colon \o Digest(1)]}}
    /\ images = [path \in {ImagePath(ROM_DUAL, S_boot_img), ImagePath(ROM_SLOT, S_boot_img)}
                    |-> 1]
    /\ blockdev = [d \in {BOOT_BLOCKDEV} |-> 2]
    /\ proc = [p \in Procs |-> IF p = 1 THEN Idle(ConcPlan(ROM_DUAL), 1)
                                        ELSE Idle(ConcPlan(ROM_SLOT), 1)]
    /\ tampers = 0
    /\ unit = NoUnit

SpecConc == InitConc /\ [][Next]_vars

\* the digest invocation p computed for the boot image of its ROM
BootHash(p) ==
    IF proc[p].op = "set_kernel" THEN proc[p].hash ELSE proc[p].flashables[1].hash

\* invocation p returned after it loaded the checksum file and wrote it back,
\* both without failure
LoadedAndPersisted(p) ==
    /\ Returned(p)
    /\ "load" \in proc[p].did
    /\ "persist" \in proc[p].did

(***************************************************************************)
(* C7: concurrent invocations of switch_rom (forced) and set_kernel for    *)
(* different ROM ids are safe: however their load, update and persist      *)
(* steps interleave, the persisted store ends as after one of the two      *)
(* sequential executions, so that the update of neither to the keys of its *)
(* own ROM is lost.                                                        *)
(***************************************************************************)
C7_ConcurrentUpdatesKept ==
    (\A p \in Procs : LoadedAndPersisted(p)) =>
        \A p \in Procs :
            /\ ChecksumKey(proc[p].id, S_boot_img) \in DOMAIN Persisted
            /\ Persisted[ChecksumKey(proc[p].id, S_boot_img)] = S_sha512_colon \o BootHash(p)

(***************************************************************************)
(* The checksum store called directly: a store over three keys, the first  *)
(* with any of the values, then checksums_update and checksums_get         *)
(***************************************************************************)
UnitRoms == {<<"a">>, <<"a", "/", "b">>}
UnitImages == {<<"c">>, <<"b", "/", "c">>}
UnitKeys == {ChecksumKey(r, i) : r \in UnitRoms, i \in UnitImages}
UnitDigests == {<<"a", "1">>, <<"b", "2">>, <<>>, <<"a", ":", "1">>}
UnitValues ==
    {S_sha512_colon \o <<"a", "1">>,
     S_sha512_colon,
     S_sha512,
     <<>>,
     <<"a", "1">>,
     <<"m", "d", "5", ":", "a", "1">>,
     <<":", "a", "1">>,
     <<"s", "h", "a", "5", "1", ":", "a", "1">>,
     <<"S", "H", "A", "5", "1", "2", ":", "a", "1">>,
     S_sha512_colon \o <<"a", "1", ":", "b", "2">>,
     <<"x", ":">> \o S_sha512_colon \o <<"a", "1">>}

NoUpdate == [rom_id |-> <<>>, image |-> <<>>, sha512 |-> <<>>]

\* the main variables, unused by the direct calls
MainUnused ==
    /\ checksums = [exists |-> FALSE, props |-> EmptyProps, owner |-> "none", mode |-> "none"]
    /\ images = EmptyProps
    /\ blockdev = EmptyProps
    /\ proc = [p \in Procs |-> Idle({}, 0)]
    /\ tampers = 0

InitStore ==
    /\ MainUnused
    /\ unit \in {[op |-> "init", props |-> Restrict(f, NoValue), prev |-> EmptyProps,
                  rom_id |-> <<>>, image |-> <<>>, ret |-> "NONE", sha512_out |-> <<>>,
                  upd |-> NoUpdate, updates |-> 0] :
                 f \in {g \in [UnitKeys -> UnitValues \cup {NoValue}] :
                          /\ g[ChecksumKey(<<"a", "/", "b">>, <<"c">>)]
                                \in {NoValue, S_sha512_colon \o <<"a", "1">>, S_sha512}
                          /\ g[ChecksumKey(<<"a", "/", "b">>, <<"b", "/", "c">>)]
                                \in {NoValue, S_sha512_colon \o <<"a", "1">>}}}

\* checksums_get(&props, rom_id, image, &sha512_out), out holding out0 before
UnitGet ==
    /\ \E rom_id \in UnitRoms : \E image \in UnitImages : \E out0 \in {<<>>, <<"z">>} :
        LET got == checksums_get(unit.props, rom_id, image, out0) IN
        unit' = [unit EXCEPT !.op = "get", !.rom_id = rom_id, !.image = image,
                             !.ret = got.ret, !.sha512_out = got.sha512_out]
    /\ UNCHANGED <<checksums, images, blockdev, proc, tampers>>

\* checksums_update(&props, rom_id, image, sha512)
UnitUpdate ==
    /\ unit.updates < MaxUpdates
    /\ \E rom_id \in UnitRoms : \E image \in UnitImages : \E sha512 \in UnitDigests :
        unit' = [unit EXCEPT !.op = "update", !.rom_id = rom_id, !.image = image,
                             !.prev = unit.props,
                             !.props = checksums_update(unit.props, rom_id, image, sha512),
                             !.upd = [rom_id |-> rom_id, image |-> image, sha512 |-> sha512],
                             !.updates = unit.updates + 1]
    /\ UNCHANGED <<checksums, images, blockdev, proc, tampers>>

NextStore == UnitGet \/ UnitUpdate

SpecStore == InitStore /\ [][NextStore]_vars

(***************************************************************************)
(* C8: checksums_get on a key the store holds returns MALFORMED exactly    *)
(* when the value has no ':' or the text before its first ':' is not       *)
(* "sha512"; it returns NOT_FOUND exactly when the key "<rom_id>/<image>"  *)
(* is absent; otherwise FOUND with the text after the first ':'.           *)
(***************************************************************************)
C8_GetResult ==
    unit.op = "get" =>
        LET key == unit.rom_id \o <<"/">> \o unit.image
            present == key \in DOMAIN unit.props
            v == unit.props[key]
        IN /\ unit.ret = "NOT_FOUND" <=> ~present
           /\ unit.ret = "MALFORMED" <=>
                /\ present
                /\ \/ \A i \in 1..Len(v) : v[i] # ":"
                   \/ \E i \in 1..Len(v) : ColonAt(v, i) /\ SubSeq(v, 1, i - 1) # S_sha512
           /\ unit.ret \notin {"NOT_FOUND", "MALFORMED"} =>
                /\ unit.ret = "FOUND"
                /\ unit.sha512_out = DigestOf(v)

\* FOUND for a value with a second ':' in its digest part
C8_Witness ==
    /\ unit.op = "get"
    /\ unit.ret = "FOUND"
    /\ \E i \in 1..Len(unit.sha512_out) : unit.sha512_out[i] = ":"

(***************************************************************************)
(* C9: checksums_update(store, rom, image, d) followed by                  *)
(* checksums_get(store, rom, image) returns FOUND with exactly d, whatever *)
(* the entry held before, and the update leaves every other key as it was. *)
(***************************************************************************)
C9_UpdateThenGet ==
    /\ (unit.op = "get" /\ unit.upd # NoUpdate
          /\ unit.upd.rom_id = unit.rom_id /\ unit.upd.image = unit.image)
        => (unit.ret = "FOUND" /\ unit.sha512_out = unit.upd.sha512)
    /\ unit.op = "update" =>
        LET key == unit.rom_id \o <<"/">> \o unit.image IN
        /\ DOMAIN unit.props = (DOMAIN unit.prev) \cup {key}
        /\ \A k \in (DOMAIN unit.prev) \ {key} : unit.props[k] = unit.prev[k]

\* a get after an update that replaced a malformed entry of the same key
C9_Witness ==
    /\ unit.op = "get"
    /\ unit.upd # NoUpdate
    /\ unit.upd.rom_id = unit.rom_id
    /\ unit.upd.image = unit.image
    /\ unit.rom_id \o <<"/">> \o unit.image \in DOMAIN unit.prev
    /\ ~WellFormed(unit.prev[unit.rom_id \o <<"/">> \o unit.image])
    /\ unit.ret = "FOUND"
    /\ Cardinality(DOMAIN unit.props) >= 2

(***************************************************************************)
(* find_block_dev called directly: any set of device nodes, any search     *)
(* path of up to MaxDirs directories                                       *)
(***************************************************************************)
UnitDirs == {<<"/", "d", "e", "v", "/", "b", "l", "o", "c", "k">>, <<"/", "b", "y">>}
UnitPartitions == {S_mmcblk \o <<"0">>, S_mmcblk, <<"m", "m", "c">>, S_mdm}
UnitNodes == {d \o <<"/">> \o n : d \in UnitDirs, n \in UnitPartitions}
UnitDirLists == UNION {[1..n -> UnitDirs] : n \in 0..MaxDirs}

InitBlockDevUnit ==
    /\ MainUnused
    /\ unit \in {[op |-> "init", nodes |-> N, search_dirs |-> <<>>, partition |-> <<>>,
                  path |-> <<>>, stats |-> <<>>] : N \in SUBSET UnitNodes}

\* find_block_dev(search_dirs, partition)
UnitFind ==
    /\ \E search_dirs \in UnitDirLists : \E partition \in UnitPartitions :
        LET found == find_block_dev(unit.nodes, search_dirs, partition) IN
        unit' = [unit EXCEPT !.op = "find", !.search_dirs = search_dirs,
                             !.partition = partition,
                             !.path = found.path, !.stats = found.stats]
    /\ UNCHANGED <<checksums, images, blockdev, proc, tampers>>

NextBlockDev == UnitFind

SpecBlockDev == InitBlockDevUnit /\ [][NextBlockDev]_vars

\* the path find_block_dev probes for directory i of the search path
DirPath(i) == unit.search_dirs[i] \o <<"/">> \o unit.partition

MaxRequests == 2

OpenFlag == {"APPEND", "CREAT", "EXCL", "RDWR", "TRUNC", "WRONLY"}

OpenPaths == {<<"/data/a">>, <<"/data/b">>}

\* the flag lists of the requests
OpenFlagSets ==
    {{}, {"WRONLY", "CREAT", "TRUNC"}, {"CREAT", "EXCL"}, {"RDWR"}, {"APPEND", "WRONLY"}}

OpenRequest(path, flags) == [path |-> path, flags |-> flags]

OpenResponse(success, error_msg) ==
    [kind |-> "response", success |-> success, error_msg |-> error_msg]

\* the descriptor as it travels in the ancillary data of the socket
FdMessage(path) == [kind |-> "fd", path |-> path]

strerror(errno) ==
    CASE errno = "ENOENT" -> "No such file or directory"
      [] errno = "EEXIST" -> "File exists"
      [] errno = "EACCES" -> "Permission denied"
      [] OTHER -> ""

\* open(2) on the files fs; able: nothing but the path and the flags stands in
\* the way (permissions, label, descriptor table)
sys_open(fs, req, able) ==
    IF req.path \notin fs /\ "CREAT" \notin req.flags
    THEN [fd |-> -1, errno |-> "ENOENT", fs |-> fs]
    ELSE IF req.path \in fs /\ {"CREAT", "EXCL"} \subseteq req.flags
    THEN [fd |-> -1, errno |-> "EEXIST", fs |-> fs]
    ELSE IF ~able
    THEN [fd |-> -1, errno |-> "EACCES", fs |-> fs]
    ELSE [fd |-> 3, errno |-> "", fs |-> fs \cup {req.path}]

\* the response to the outcome of open(2)
open_response(res) ==
    IF res.fd < 0 THEN OpenResponse(FALSE, strerror(res.errno))
    ELSE OpenResponse(TRUE, "")

\* a handler that passes a descriptor whatever the response says
SendsFd_always(response) == TRUE

\* the descriptor is passed exactly after a response with success set
SendsFd(response) == response.success

InitOpen ==
    /\ MainUnused
    /\ unit \in {[op |-> "open", pc |-> "idle", fs |-> fs, req |-> OpenRequest(<<>>, {}),
                  requests |-> 0, chan |-> <<>>, hist |-> <<>>] :
                 fs \in SUBSET OpenPaths}

\* the peer sends a request
OpenRecv ==
    /\ unit.pc = "idle"
    /\ unit.requests < MaxRequests
    /\ \E path \in OpenPaths : \E flags \in OpenFlagSets :
        unit' = [unit EXCEPT !.pc = "opening", !.req = OpenRequest(path, flags),
                             !.requests = @ + 1]
    /\ UNCHANGED <<checksums, images, blockdev, proc, tampers>>

\* the daemon opens the path and sends the response
OpenHandle ==
    /\ unit.pc = "opening"
    /\ \E able \in BOOLEAN :
        LET res == sys_open(unit.fs, unit.req, able)
            response == open_response(res)
        IN unit' = [unit EXCEPT
                       !.pc = IF SendsFd(response) THEN "send_fd" ELSE "idle",
                       !.fs = res.fs,
                       !.chan = Append(@, response),
                       !.hist = Append(@, [req |-> unit.req,
                                           existed |-> unit.req.path \in unit.fs,
                                           able |-> able])]
    /\ UNCHANGED <<checksums, images, blockdev, proc, tampers>>

\* the daemon passes the descriptor
OpenSendFd ==
    /\ unit.pc = "send_fd"
    /\ unit' = [unit EXCEPT !.pc = "idle", !.chan = Append(@, FdMessage(unit.req.path))]
    /\ UNCHANGED <<checksums, images, blockdev, proc, tampers>>

NextOpen == OpenRecv \/ OpenHandle \/ OpenSendFd

SpecOpen == InitOpen /\ [][NextOpen]_vars

\* the positions of the responses on the connection
ResponseAt == {i \in 1..Len(unit.chan) : unit.chan[i].kind = "response"}

\* the position of the response to the k-th request
ResponseOf(k) ==
    CHOOSE i \in ResponseAt : Cardinality({j \in ResponseAt : j <= i}) = k

(***************************************************************************)
(* C11: every open request gets exactly one response; a descriptor is      *)
(* transmitted on the connection if and only if the response has success   *)
(* set, and then right after that response; a failed open, such as a path  *)
(* that does not exist requested without the create flag, yields success   *)
(* unset with the text of the OS error and no descriptor.                  *)
(***************************************************************************)
C11_OpenProtocol ==
    unit.op = "open" =>
        /\ Cardinality(ResponseAt) = Len(unit.hist)
        /\ Len(unit.hist) = IF unit.pc = "opening" THEN unit.requests - 1
                            ELSE unit.requests
        /\ \A i \in 1..Len(unit.chan) :
            /\ unit.chan[i].kind = "fd" =>
                /\ i > 1
                /\ unit.chan[i - 1].kind = "response"
                /\ unit.chan[i - 1].success
            /\ unit.chan[i].kind = "response" /\ unit.chan[i].success =>
                /\ unit.chan[i].error_msg = ""
                /\ IF i < Len(unit.chan)
                   THEN unit.chan[i + 1].kind = "fd"
                   ELSE unit.pc = "send_fd"
            /\ unit.chan[i].kind = "response" /\ ~unit.chan[i].success =>
                /\ unit.chan[i].error_msg # ""
                /\ i < Len(unit.chan) => unit.chan[i + 1].kind = "response"
                /\ i = Len(unit.chan) => unit.pc # "send_fd"
        /\ \A k \in 1..Len(unit.hist) :
            LET h == unit.hist[k]
                r == unit.chan[ResponseOf(k)]
            IN /\ ~h.existed /\ "CREAT" \notin h.req.flags =>
                    ~r.success /\ r.error_msg = "No such file or directory"
               /\ h.able /\ h.req.flags = {"WRONLY", "CREAT", "TRUNC"} =>
                    r.success /\ r.error_msg = ""

\* a connection that served a successful open with create, then a failed
\* open of a missing path without it
C11_Witness ==
    /\ unit.op = "open"
    /\ unit.pc = "idle"
    /\ Len(unit.chan) = 3
    /\ unit.chan[1].kind = "response" /\ unit.chan[1].success
    /\ unit.chan[2].kind = "fd"
    /\ unit.chan[3].kind = "response" /\ ~unit.chan[3].success
    /\ unit.chan[3].error_msg = "No such file or directory"
    /\ unit.hist[1].req.flags = {"WRONLY", "CREAT", "TRUNC"}
    /\ ~unit.hist[2].existed

(***************************************************************************)
(* C12: every block device switch_rom writes is the boot block device of   *)
(* the call, for <rom_dir>/boot.img, which is always the first flashable,  *)
(* or the device found for a *.img file of the ROM directory whose         *)
(* partition name is exactly mdm or modem; an image that is not            *)
(* whitelisted or has no device, and a directory that cannot be scanned,   *)
(* are skipped: the scan never ends the call, which goes on with the       *)
(* flashables it has.                                                      *)
(***************************************************************************)
C12_OnlyBootAndWhitelisted ==
    \A p \in Procs : proc[p].op = "switch_rom" =>
        LET fl == proc[p].flashables
            rom_dir == MultibootPath(proc[p].id)
        IN /\ "opendir" \in proc[p].did =>
                /\ Len(fl) >= 1
                /\ fl[1].image = rom_dir \o <<"/">> \o S_boot_img
                /\ fl[1].block_dev = BOOT_BLOCKDEV
                /\ \A k \in 2..Len(fl) :
                    \E part \in {S_mdm, S_modem} :
                        /\ fl[k].image = rom_dir \o <<"/">> \o part \o S_dot_img
                        /\ fl[k].image \in DOMAIN images
                        /\ fl[k].block_dev \in DOMAIN blockdev
                        /\ \E i \in 1..Len(BLOCKDEV_BASE_DIRS) :
                            /\ fl[k].block_dev = BLOCKDEV_BASE_DIRS[i] \o <<"/">> \o part
                            /\ \A j \in 1..(i - 1) :
                                BLOCKDEV_BASE_DIRS[j] \o <<"/">> \o part \notin DOMAIN blockdev
                /\ \A k, l \in 1..Len(fl) : fl[k].image = fl[l].image => k = l
           /\ Len(proc[p].wrote) <= Len(fl)
           /\ \A j \in 1..Len(proc[p].wrote) : proc[p].wrote[j].dev = fl[j].block_dev
           /\ proc[p].pc = "sw_load" => proc[p].ret = "NONE" /\ proc[p].exit = "none"
           /\ proc[p].exit \notin {"images", "opendir"}

\* a switch that succeeded on boot.img and mdm.img while the directory also
\* held system.img, which is not whitelisted, and modem.img, which has no
\* block device
C12_Witness ==
    /\ Returned(1)
    /\ proc[1].op = "switch_rom"
    /\ proc[1].ret = "SUCCEEDED"
    /\ ImagePath(proc[1].id, S_system_img) \in DOMAIN images
    /\ ImagePath(proc[1].id, S_modem_img) \in DOMAIN images
    /\ BY_NAME \o <<"/">> \o S_modem \notin DOMAIN blockdev
    /\ Len(proc[1].flashables) = 2
    /\ Len(proc[1].wrote) = 2
    /\ proc[1].wrote[1].dev = BOOT_BLOCKDEV
    /\ proc[1].wrote[2].dev = BOOTDEVICE \o <<"/">> \o S_mdm

(***************************************************************************)
(* C13, as claimed: in switch_rom no digest computation, checksum-store    *)
(* update or checksum lookup for any image happens before every image of   *)
(* the list has been read into its memory buffer.                          *)
(***************************************************************************)
C13_ReadAllBeforeVerify ==
    \A p \in Procs : proc[p].op = "switch_rom" /\ proc[p].pc # "idle" =>
        ((\E k \in DOMAIN proc[p].flashables :
            \/ proc[p].flashables[k].hash # <<>>
            \/ proc[p].flashables[k].expected_hash # <<>>)
         => \A k \in DOMAIN proc[p].flashables : proc[p].flashables[k].data # nullptr)

(***************************************************************************)
(* C13, amended: switch_rom reads and verifies image by image, in list     *)
(* order: the digest, the store update and the lookup of an image happen   *)
(* only once that image is in its memory buffer and are done on that       *)
(* buffer, while the images after it are not read yet; no block device is  *)
(* written before every image of the list is in its buffer.                *)
(***************************************************************************)
C13_ReadBeforeOwnVerify ==
    \A p \in Procs : proc[p].op = "switch_rom" /\ proc[p].pc # "idle" =>
        LET fl == proc[p].flashables IN
        /\ \A k \in DOMAIN fl :
            /\ (fl[k].hash # <<>> \/ fl[k].expected_hash # <<>>) =>
                /\ fl[k].data # nullptr
                /\ fl[k].hash = hex_string(SHA512(fl[k].data))
            /\ fl[k].data # nullptr => \A j \in 1..(k - 1) : fl[j].hash # <<>>
            /\ proc[p].force /\ fl[k].data = nullptr /\ "load" \in proc[p].did =>
                (KeyOf(p, k) \in DOMAIN proc[p].props =>
                    /\ KeyOf(p, k) \in DOMAIN proc[p].pre
                    /\ proc[p].props[KeyOf(p, k)] = proc[p].pre[KeyOf(p, k)])
        /\ proc[p].pc = "sw_read" =>
            \A k \in DOMAIN fl : fl[k].data # nullptr <=> k < proc[p].i
        /\ proc[p].wrote # <<>> => \A k \in DOMAIN fl : fl[k].data # nullptr

\* the first image is verified while the second is still to be read
C13_Witness ==
    /\ proc[1].op = "switch_rom"
    /\ proc[1].pc = "sw_read"
    /\ proc[1].i = 2
    /\ Len(proc[1].flashables) >= 2
    /\ proc[1].flashables[1].hash # <<>>
    /\ proc[1].flashables[1].expected_hash # <<>>
    /\ proc[1].flashables[2].data = nullptr

(***************************************************************************)
(* Images that cannot be read: the ROM directory is in shared storage, so  *)
(* an image file the scan found can be gone when its turn to be read comes *)
(***************************************************************************)
\* another app removes an image file while an invocation runs
Remove ==
    /\ tampers < MaxTamper
    /\ \E p \in Procs : proc[p].pc # "idle"
    /\ \E path \in DOMAIN images :
        images' = [q \in DOMAIN images \ {path} |-> images[q]]
    /\ tampers' = tampers + 1
    /\ UNCHANGED <<checksums, blockdev, proc, unit>>

\* boot.img and mdm.img in the directory; any state of their checksums
InitRead ==
    /\ checksums \in
        {[exists |-> TRUE, props |-> Restrict(g, NoValue), owner |-> "root", mode |-> "0700"] :
            g \in [{ChecksumKey(ROM_DUAL, S_boot_img), ChecksumKey(ROM_DUAL, S_mdm_img)}
                   -> {NoValue, S_sha512_colon \o Digest(1), S_sha512_colon \o Digest(2),
                       Digest(1)}]}
    /\ images = [q \in {ImagePath(ROM_DUAL, S_boot_img), ImagePath(ROM_DUAL, S_mdm_img)} |-> 1]
    /\ blockdev = [d \in {BOOT_BLOCKDEV, BOOTDEVICE \o <<"/">> \o S_mdm} |-> 2]
    /\ proc = [p \in Procs |-> IF p = 1 THEN Idle(MainPlan, MaxCalls) ELSE Idle({}, 0)]
    /\ tampers = 0
    /\ unit = NoUnit

NextRead == Next \/ Remove

SpecRead == InitRead /\ [][NextRead]_vars

\* flashable k of invocation p was not read and its image file is gone
CannotBeRead(p, k) ==
    /\ proc[p].flashables[k].hash = <<>>
    /\ proc[p].flashables[k].image \notin DOMAIN images

(***************************************************************************)
(* C14, as claimed: if the image of any flashable cannot be read,          *)
(* switch_rom returns FAILED, whatever the checksums of the other images,  *)
(* also when an earlier image of the list has a mismatching or malformed   *)
(* stored checksum.                                                        *)
(***************************************************************************)
C14_UnreadableAlwaysFailed ==
    \A p \in Procs :
        (/\ Returned(p)
         /\ proc[p].op = "switch_rom"
         /\ \E k \in DOMAIN proc[p].flashables : CannotBeRead(p, k))
        => proc[p].ret = "FAILED"

(***************************************************************************)
(* C14, amended: if the image of a flashable cannot be read, switch_rom    *)
(* returns FAILED, unless an image before it in the list has a malformed   *)
(* or mismatching stored checksum: then it returns CHECKSUM_INVALID before *)
(* it comes to the unreadable image.  Either way no block device is        *)
(* written, and a read that fails always ends the call with FAILED.        *)
(***************************************************************************)
C14_UnreadableFailedOrInvalid ==
    \A p \in Procs : Returned(p) /\ proc[p].op = "switch_rom" =>
        /\ proc[p].exit = "read" => proc[p].ret = "FAILED" /\ proc[p].wrote = <<>>
        /\ \A k \in DOMAIN proc[p].flashables : CannotBeRead(p, k) =>
            /\ proc[p].wrote = <<>>
            /\ \/ proc[p].ret = "FAILED" /\ proc[p].exit = "read"
               \/ /\ proc[p].ret = "CHECKSUM_INVALID"
                  /\ \E j \in 1..(k - 1) : StoredBad(p, j)

\* mdm.img was removed before its turn: one call failed on reading it ...
C14_Witness ==
    /\ Returned(1)
    /\ proc[1].op = "switch_rom"
    /\ Len(proc[1].flashables) = 2
    /\ CannotBeRead(1, 2)
    /\ proc[1].flashables[1].hash # <<>>
    /\ proc[1].ret = "FAILED"
    /\ proc[1].exit = "read"

(***************************************************************************)
(* C15: the flash phase of switch_rom writes the images in list order;     *)
(* when the write of the k-th flashable fails the result is FAILED, no     *)
(* flashable after k is written, the flashables before k stay written (no  *)
(* rollback), and neither the checksum file is written nor the permission  *)
(* fix run.                                                                *)
(***************************************************************************)
C15_FlashFailureStops ==
    \A p \in Procs : proc[p].op = "switch_rom" =>
        LET fl == proc[p].flashables
            n == Len(proc[p].wrote)
        IN /\ n <= Len(fl)
           /\ \A j \in 1..n :
                /\ proc[p].wrote[j].dev = fl[j].block_dev
                /\ blockdev[fl[j].block_dev] = proc[p].wrote[j].data
           /\ (Returned(p) /\ "flash" \in proc[p].did /\ n < Len(fl)) =>
                /\ proc[p].ret = "FAILED"
                /\ proc[p].exit = "flash"
                /\ proc[p].did \cap {"persist", "persist_failed", "fixperm"} = {}
                /\ Persisted = proc[p].pre
           /\ (Returned(p) /\ proc[p].exit = "flash") => n < Len(fl)

\* the write of mdm.img failed after boot.img was flashed
C15_Witness ==
    /\ Returned(1)
    /\ proc[1].op = "switch_rom"
    /\ proc[1].exit = "flash"
    /\ proc[1].force
    /\ Len(proc[1].flashables) = 2
    /\ Len(proc[1].wrote) = 1
    /\ blockdev[BOOT_BLOCKDEV] = 1
    /\ blockdev[proc[1].flashables[2].block_dev] = 2

(***************************************************************************)
(* C16: once every flashable has been flashed, the permission fix alone    *)
(* decides the result of switch_rom: SUCCEEDED if and only if it succeeds, *)
(* FAILED otherwise, the images staying flashed; a checksum file that      *)
(* cannot be written never changes the result, and with                    *)
(* force_update_checksums the write is attempted before the permission fix *)
(* (and without it never).                                                 *)
(***************************************************************************)
C16_PermissionFixDecides ==
    \A p \in Procs : proc[p].op = "switch_rom" =>
        LET fl == proc[p].flashables
            flashed == Len(fl) >= 1 /\ Len(proc[p].wrote) = Len(fl)
            persisted == proc[p].did \cap {"persist", "persist_failed"} # {}
        IN /\ Returned(p) /\ flashed =>
                /\ "fixperm" \in proc[p].did
                /\ proc[p].exit \in {"ok", "perm"}
                /\ proc[p].ret = IF proc[p].exit = "ok" THEN "SUCCEEDED" ELSE "FAILED"
                /\ \A j \in 1..Len(fl) : blockdev[fl[j].block_dev] = proc[p].wrote[j].data
                /\ persisted <=> proc[p].force
           /\ Returned(p) /\ proc[p].ret = "SUCCEEDED" => flashed /\ proc[p].exit = "ok"
           /\ proc[p].exit \in {"ok", "perm"} => flashed
           /\ "fixperm" \in proc[p].did => flashed /\ (persisted <=> proc[p].force)
           /\ persisted => flashed /\ proc[p].force
           /\ proc[p].pc = "sw_persist" => flashed /\ "fixperm" \notin proc[p].did
           /\ proc[p].pc = "sw_fixperm" /\ proc[p].force => persisted

\* a forced switch that succeeded although the checksum file could not be
\* written
C16_Witness ==
    /\ Returned(1)
    /\ proc[1].op = "switch_rom"
    /\ proc[1].force
    /\ Len(proc[1].wrote) = Len(proc[1].flashables)
    /\ "persist_failed" \in proc[1].did
    /\ proc[1].ret = "SUCCEEDED"

(***************************************************************************)
(* C17: for a ROM id the registry does not know, switch_rom returns FAILED *)
(* and set_kernel returns false before any side effect: no directory is    *)
(* created, no image or block device read, the checksum file neither read  *)
(* nor written, no block device or image file written, and the permission  *)
(* fix not run.                                                            *)
(***************************************************************************)
C17_UnknownRomNoEffect ==
    \A p \in Procs : proc[p].op # "none" /\ ~find_by_id(proc[p].id) =>
        /\ proc[p].did = {}
        /\ proc[p].wrote = <<>>
        /\ proc[p].flashables = <<>>
        /\ proc[p].data = nullptr
        /\ proc[p].props = EmptyProps
        /\ Persisted = proc[p].pre
        /\ proc[p].pc \in {"idle", "sw_find", "sk_find"}
        /\ Returned(p) =>
            /\ proc[p].exit = "rom_id"
            /\ proc[p].ret = IF proc[p].op = "switch_rom" THEN "FAILED" ELSE "false"

\* switch_rom of an unknown ROM returned while boot.img and a checksum file
\* were there to be used
C17_Witness ==
    /\ Returned(1)
    /\ proc[1].op = "switch_rom"
    /\ proc[1].id = ROM_UNKNOWN
    /\ proc[1].ret = "FAILED"
    /\ checksums.exists
    /\ ImagePath(ROM_DUAL, S_boot_img) \in DOMAIN images

(***************************************************************************)
(* C18: switch_rom writes the checksum file only if the caller asked for   *)
(* the update: with force_update_checksums unset, whatever the outcome,    *)
(* the store in memory stays as it was loaded and the checksum file as it  *)
(* was (no key added, removed or changed, the file never removed or        *)
(* rewritten).                                                             *)
(***************************************************************************)
C18_UnforcedStoreUntouched ==
    \A p \in Procs : proc[p].op = "switch_rom" /\ ~proc[p].force =>
        /\ proc[p].props = IF "load" \in proc[p].did THEN proc[p].pre ELSE EmptyProps
        /\ DOMAIN Persisted = DOMAIN proc[p].pre
        /\ \A k \in DOMAIN Persisted : Persisted[k] = proc[p].pre[k]
        /\ proc[p].did \cap {"persist", "persist_failed"} = {}
        /\ proc[p].pc # "sw_persist"
        /\ proc[p].pre # EmptyProps => checksums.exists

\* an unforced switch that flashed boot.img and mdm.img on a store that also
\* holds keys of other images
C18_Witness ==
    /\ Returned(1)
    /\ proc[1].op = "switch_rom"
    /\ ~proc[1].force
    /\ proc[1].ret = "SUCCEEDED"
    /\ Len(proc[1].wrote) = 2
    /\ "load" \in proc[1].did
    /\ Cardinality(DOMAIN Persisted) >= 3

(***************************************************************************)
(* C19: every image buffer allocated during switch_rom or set_kernel is    *)
(* released exactly once on every exit path: at each return no buffer read *)
(* for a flashable, or for the boot partition in set_kernel, remains       *)
(* allocated, and none is freed twice; until the return every allocated    *)
(* buffer is still held by its owner.                                      *)
(***************************************************************************)
C19_BuffersReleasedOnce ==
    \A p \in Procs : proc[p].op # "none" =>
        /\ proc[p].pc # "idle" =>
            /\ DOMAIN proc[p].freed = {}
            /\ proc[p].allocd = Released(proc[p])
        /\ Returned(p) =>
            /\ DOMAIN proc[p].freed = proc[p].allocd
            /\ \A k \in proc[p].allocd : proc[p].freed[k] = 1
            /\ Released(proc[p]) = {}
        /\ proc[p].exit \in {"ok", "perm", "flash", "missing"} =>
            proc[p].allocd = IF proc[p].op = "switch_rom"
                             THEN DOMAIN proc[p].flashables ELSE {0}

\* switch_rom returned on the second image, which it could not read, with
\* the buffer of the first one released
C19_Witness ==
    /\ Returned(1)
    /\ proc[1].op = "switch_rom"
    /\ proc[1].exit = "read"
    /\ Len(proc[1].flashables) = 2
    /\ proc[1].allocd = {1}
    /\ DOMAIN proc[1].freed = {1}
    /\ proc[1].freed[1] = 1

(***************************************************************************)
(* C20: whenever checksums_write returns success, the checksum file is     *)
(* owned by root and restricted to owner-only access (mode 0700), for      *)
(* every combination of success and failure of the remove, create, chown   *)
(* and chmod steps that precede the final write.                           *)
(***************************************************************************)
C20_WrittenFileOwnerOnly ==
    \A p \in Procs :
        (proc[p].pc # "idle" /\ "persist" \in proc[p].did) =>
            /\ checksums.exists
            /\ checksums.owner = "root"
            /\ checksums.mode = "0700"

(***************************************************************************)
(* C21: whenever set_kernel returns true, the checksum file holds, for     *)
(* "<rom_id>/boot.img", "sha512:" followed by the digest of the bytes      *)
(* set_kernel wrote to the boot image of the ROM, so that a switch_rom of  *)
(* that ROM right after it finds a checksum that matches.                  *)
(***************************************************************************)
C21_SetKernelEntryPersisted ==
    \A p \in Procs :
        (Returned(p) /\ proc[p].op = "set_kernel" /\ proc[p].ret = "true") =>
            /\ Len(proc[p].wrote) = 1
            /\ ChecksumKey(proc[p].id, S_boot_img) \in DOMAIN Persisted
            /\ Persisted[ChecksumKey(proc[p].id, S_boot_img)]
                 = S_sha512_colon \o hex_string(SHA512(proc[p].wrote[1].data))

(***************************************************************************)
(* C22: with force_update_checksums set, switch_rom never returns          *)
(* CHECKSUM_INVALID or CHECKSUM_NOT_FOUND, whatever the store held before  *)
(* (no entry, a mismatching or a malformed one): the entry of each image   *)
(* is overwritten with its fresh digest before the lookup, so every image  *)
(* that was read is given to the flash loop without being compared with a  *)
(* digest stored earlier.                                                  *)
(***************************************************************************)
C22_ForcedNeverChecksumResult ==
    \A p \in Procs : proc[p].op = "switch_rom" /\ proc[p].force =>
        LET fl == proc[p].flashables IN
        /\ proc[p].ret \notin {"CHECKSUM_INVALID", "CHECKSUM_NOT_FOUND"}
        /\ proc[p].exit \notin {"malformed", "mismatch", "missing"}
        /\ \A k \in DOMAIN fl : fl[k].hash # <<>> =>
            /\ fl[k].expected_hash = fl[k].hash
            /\ KeyOf(p, k) \in DOMAIN proc[p].props
            /\ proc[p].props[KeyOf(p, k)] = S_sha512_colon \o fl[k].hash
        /\ (Returned(p) /\ proc[p].exit \notin {"rom_id", "mkdir", "read"}) =>
            /\ "flash" \in proc[p].did
            /\ \A k \in DOMAIN fl : fl[k].hash # <<>>
        /\ \A j \in 1..Len(proc[p].wrote) :
            fl[j].hash = hex_string(SHA512(proc[p].wrote[j].data))

\* a forced switch flashed boot.img and mdm.img although the store loaded
\* held a malformed or mismatching entry for the first and none for the
\* second
C22_Witness ==
    /\ Returned(1)
    /\ proc[1].op = "switch_rom"
    /\ proc[1].force
    /\ "load" \in proc[1].did
    /\ Len(proc[1].flashables) = 2
    /\ Len(proc[1].wrote) = 2
    /\ KeyOf(1, 1) \in DOMAIN proc[1].pre
    /\ proc[1].pre[KeyOf(1, 1)] # S_sha512_colon \o proc[1].flashables[1].hash
    /\ KeyOf(1, 2) \notin DOMAIN proc[1].pre
    /\ proc[1].ret = "SUCCEEDED"

====
